---- MODULE Spec2Model ----
(***************************************************************************)
(* Model of the prediction engine (PredictionService.ts), of the fixture   *)
(* ingestion (DataService.ts) and of the process that runs both as batch   *)
(* jobs (index.ts) of Football-Data-Scraper.                               *)
(*                                                                         *)
(* JavaScript numbers are modelled as exact rationals [n, d] in lowest     *)
(* terms with d > 0, plus the value NaN = [n |-> 0, d |-> 0] that the      *)
(* division 0/0 produces and that every later operation propagates.        *)
(***************************************************************************)
EXTENDS Integers, Sequences, FiniteSets, TLC

VARIABLES matches, nextMatchId, origin, predictions, last,
          homeStats, awayStats, headToHead, prediction,
          form, formScore,
          env, proc, ingest, gen, requested,
          leagues, teams, venues, match_statistics,
          active, source, runs,
          twin

vars == <<matches, nextMatchId, origin, predictions, last,
          homeStats, awayStats, headToHead, prediction,
          form, formScore,
          env, proc, ingest, gen, requested,
          leagues, teams, venues, match_statistics,
          active, source, runs,
          twin>>

storeVars == <<matches, nextMatchId, origin, predictions, last>>
engineVars == <<homeStats, awayStats, headToHead, prediction>>
formVars == <<form, formScore>>
jobVars == <<env, proc, ingest, gen, requested>>
tableVars == <<leagues, teams, venues, match_statistics>>
passVars == <<tableVars, active, source, runs>>
pairVars == <<twin>>

(***************************************************************************)
(* Bounds                                                                  *)
(***************************************************************************)
MaxFormLen == 6
MaxH2H == 4
MaxRows == 2
MaxFixtures == 2
MaxGoals == 1
NumLeagues == 2
NumRuns == 2
MaxHistory == 11
MaxScore == 3

(***************************************************************************)
(* Numbers                                                                 *)
(***************************************************************************)
Abs(x) == IF x < 0 THEN -x ELSE x

RECURSIVE GCD(_, _)
GCD(a, b) == IF b = 0 THEN a ELSE GCD(b, a % b)

NaN == [n |-> 0, d |-> 0]

IsNaN(x) == x.d = 0

Rat(n, d) ==
  IF d = 0 THEN NaN
  ELSE IF n = 0 THEN [n |-> 0, d |-> 1]
  ELSE IF d = 1 THEN [n |-> n, d |-> 1]
  ELSE LET g == GCD(Abs(n), Abs(d))
           s == IF d < 0 THEN -1 ELSE 1
       IN  [n |-> (s * n) \div g, d |-> (s * d) \div g]

Int2Rat(k) == [n |-> k, d |-> 1]

RAdd(x, y) == IF IsNaN(x) \/ IsNaN(y) THEN NaN
              ELSE Rat(x.n * y.d + y.n * x.d, x.d * y.d)

RSub(x, y) == IF IsNaN(x) \/ IsNaN(y) THEN NaN
              ELSE Rat(x.n * y.d - y.n * x.d, x.d * y.d)

RMul(x, y) == IF IsNaN(x) \/ IsNaN(y) THEN NaN
              ELSE Rat(x.n * y.n, x.d * y.d)

\* x / y; the only zero divisor the code can meet is teamMatches.length
\* under a zero sum, and 0 / 0 is NaN
RDiv(x, y) == IF IsNaN(x) \/ IsNaN(y) \/ y.n = 0 THEN NaN
              ELSE Rat(x.n * y.d, x.d * y.n)

\* comparisons are false as soon as one side is NaN
RLt(x, y) == ~IsNaN(x) /\ ~IsNaN(y) /\ x.n * y.d < y.n * x.d
RLe(x, y) == ~IsNaN(x) /\ ~IsNaN(y) /\ x.n * y.d <= y.n * x.d

MathMin(x, y) == IF IsNaN(x) \/ IsNaN(y) THEN NaN
                 ELSE IF RLt(y, x) THEN y ELSE x

MathMax(x, y) == IF IsNaN(x) \/ IsNaN(y) THEN NaN
                 ELSE IF RLt(x, y) THEN y ELSE x

Zero == Int2Rat(0)
One == Int2Rat(1)
Half == Rat(1, 2)

\* the decimal literals of the code
m0_05 == Rat(-5, 100)
d0_01 == Rat(1, 100)
d0_02 == Rat(2, 100)
d0_05 == Rat(5, 100)
d0_08 == Rat(8, 100)
d0_1 == Rat(1, 10)
d0_2 == Rat(2, 10)
d0_3 == Rat(3, 10)
d0_4 == Rat(4, 10)
d0_6 == Rat(6, 10)
d0_7 == Rat(7, 10)
d0_8 == Rat(8, 10)
d0_9 == Rat(9, 10)
d1_3 == Rat(13, 10)
d1_5 == Rat(15, 10)
d2 == Int2Rat(2)
d2_5 == Rat(25, 10)
d3 == Int2Rat(3)

(***************************************************************************)
(* Probability engine                                                      *)
(***************************************************************************)
Results == {"W", "D", "L"}

FormWeight_FourthTenth(index) ==
  CASE index = 0 -> d0_4
    [] index = 1 -> d0_3
    [] index = 2 -> d0_2
    [] index = 3 -> d0_1
    [] index = 4 -> d0_02
    [] OTHER -> d0_01

\* weights[index] || 0.01, index counted from 0
FormWeight(index) ==
  CASE index = 0 -> d0_4
    [] index = 1 -> d0_3
    [] index = 2 -> d0_2
    [] index = 3 -> d0_08
    [] index = 4 -> d0_02
    [] OTHER -> d0_01

FormStep(score, result, index) ==
  CASE result = "W" -> RAdd(score, FormWeight(index))
    [] result = "D" -> RAdd(score, RMul(FormWeight(index), Half))
    [] OTHER -> score

RECURSIVE FormFold(_, _)
FormFold(f, k) ==
  IF k = 0 THEN Zero ELSE FormStep(FormFold(f, k - 1), f[k], k - 1)

calculateFormScore(f) ==
  IF Len(f) = 0 THEN Half ELSE FormFold(f, Len(f))

CountOf(f, r) == Cardinality({i \in 1..Len(f) : f[i] = r})

Max3(a, b, c) ==
  LET m == IF a > b THEN a ELSE b IN IF m > c THEN m ELSE c

calculateFormConsistency_WinsOnly(f) ==
  IF Len(f) < 2 THEN Half ELSE Rat(CountOf(f, "W"), Len(f))

calculateFormConsistency(f) ==
  IF Len(f) < 2 THEN Half
  ELSE Rat(Max3(CountOf(f, "W"), CountOf(f, "D"), CountOf(f, "L")), Len(f))

\* h2h.totalMatches > 0 ? h2h.homeWins / h2h.totalMatches : 0.5
HomeH2HFactor(h2h) ==
  IF h2h.totalMatches > 0 THEN Rat(h2h.homeWins, h2h.totalMatches) ELSE Half

AwayH2HFactor_DefaultHalf(h2h) ==
  IF h2h.totalMatches > 0 THEN Rat(h2h.awayWins, h2h.totalMatches) ELSE Half

\* h2h.totalMatches > 0 ? h2h.awayWins / h2h.totalMatches : 0.3
AwayH2HFactor(h2h) ==
  IF h2h.totalMatches > 0 THEN Rat(h2h.awayWins, h2h.totalMatches) ELSE d0_3

HomeWeightSum_WithoutGoals == RAdd(RAdd(RAdd(d0_4, d0_3), d0_3), d0_1)

\* (homeFormWeight + awayFormWeight + h2hWeight + 0.1 + 0.2) of
\* calculateHomeWinProbability
HomeWeightSum == RAdd(RAdd(RAdd(RAdd(d0_4, d0_3), d0_3), d0_1), d0_2)

\* (homeFormWeight + awayFormWeight + h2hWeight + 0.05 + 0.2) of
\* calculateAwayWinProbability
AwayWeightSum == RAdd(RAdd(RAdd(RAdd(d0_3, d0_4), d0_3), d0_05), d0_2)

calculateHomeWinProbability(hs, as, h2h) ==
  LET homeFormWeight == d0_4
      awayFormWeight == d0_3
      h2hWeight == d0_3
      homeFormScore == calculateFormScore(hs.recentForm)
      awayFormScore == calculateFormScore(as.recentForm)
      h2hFactor == HomeH2HFactor(h2h)
      homeGoalsFactor == MathMin(One, RDiv(hs.averageGoalsScored, d2))
      awayGoalsFactor ==
        MathMax(Zero, RSub(One, RDiv(as.averageGoalsConceded, d2)))
      homeAdvantage == d0_1
      sum == RAdd(RAdd(RAdd(RAdd(RMul(homeFormWeight, homeFormScore),
                                 RMul(awayFormWeight, RSub(One, awayFormScore))),
                            RMul(h2hWeight, h2hFactor)),
                       homeAdvantage),
                  RMul(RAdd(homeGoalsFactor, awayGoalsFactor), d0_1))
      probability == RDiv(sum, HomeWeightSum)
  IN  MathMax(d0_1, MathMin(d0_9, probability))

calculateAwayWinProbability(hs, as, h2h) ==
  LET homeFormWeight == d0_3
      awayFormWeight == d0_4
      h2hWeight == d0_3
      homeFormScore == calculateFormScore(hs.recentForm)
      awayFormScore == calculateFormScore(as.recentForm)
      h2hFactor == AwayH2HFactor(h2h)
      awayGoalsFactor == MathMin(One, RDiv(as.averageGoalsScored, d2))
      homeGoalsFactor ==
        MathMax(Zero, RSub(One, RDiv(hs.averageGoalsConceded, d2)))
      awayDisadvantage == m0_05
      sum == RAdd(RAdd(RAdd(RAdd(RMul(homeFormWeight, RSub(One, homeFormScore)),
                                 RMul(awayFormWeight, awayFormScore)),
                            RMul(h2hWeight, h2hFactor)),
                       awayDisadvantage),
                  RMul(RAdd(awayGoalsFactor, homeGoalsFactor), d0_1))
      probability == RDiv(sum, AwayWeightSum)
  IN  MathMax(d0_05, MathMin(d0_8, probability))

calculateBothTeamsScoreProbability(hs, as, h2h) ==
  LET oneAndHalf == d1_5
      homeScoringProb == MathMin(One, RDiv(hs.averageGoalsScored, oneAndHalf))
      awayScoringProb == MathMin(One, RDiv(as.averageGoalsScored, oneAndHalf))
      homeConcedingProb == MathMin(One, RDiv(hs.averageGoalsConceded, oneAndHalf))
      awayConcedingProb == MathMin(One, RDiv(as.averageGoalsConceded, oneAndHalf))
      h2hFactor == IF h2h.totalMatches > 0
                   THEN Rat(h2h.bothTeamsScored, h2h.totalMatches) ELSE d0_6
      sum == RAdd(RAdd(RAdd(RAdd(RMul(homeScoringProb, d0_3),
                                 RMul(awayScoringProb, d0_3)),
                            RMul(homeConcedingProb, d0_2)),
                       RMul(awayConcedingProb, d0_2)),
                  RMul(h2hFactor, d0_3))
      probability == RDiv(sum, d1_3)
  IN  MathMax(d0_2, MathMin(d0_9, probability))

calculateOver2_5GoalsProbability_FromHistory(hs, as, h2h) ==
  LET goalsFactor == MathMin(One, RDiv(h2h.averageGoals, d3))
      h2hFactor == IF h2h.totalMatches > 0
                   THEN Rat(h2h.over2_5Goals, h2h.totalMatches) ELSE Half
      probability == RDiv(RAdd(RMul(goalsFactor, d0_7),
                               RMul(h2hFactor, d0_3)), One)
  IN  MathMax(d0_2, MathMin(d0_9, probability))

calculateOver2_5GoalsProbability(hs, as, h2h) ==
  LET totalAverageGoals == RAdd(hs.averageGoalsScored, as.averageGoalsScored)
      goalsFactor == MathMin(One, RDiv(totalAverageGoals, d3))
      h2hFactor == IF h2h.totalMatches > 0
                   THEN Rat(h2h.over2_5Goals, h2h.totalMatches) ELSE Half
      probability == RDiv(RAdd(RMul(goalsFactor, d0_7),
                               RMul(h2hFactor, d0_3)), One)
  IN  MathMax(d0_2, MathMin(d0_9, probability))

calculateHandicapProbability_FloorZero(baseProbability, handicap) ==
  LET handicapFactor == RMul(handicap, d0_1)
  IN  MathMax(Zero, MathMin(d0_9, RSub(baseProbability, handicapFactor)))

calculateHandicapProbability(baseProbability, handicap) ==
  LET handicapFactor == RMul(handicap, d0_1)
  IN  MathMax(d0_1,
              MathMin(d0_9, RSub(baseProbability, handicapFactor)))

calculateConfidenceScore(hs, as, h2h) ==
  LET homeFormConsistency == calculateFormConsistency(hs.recentForm)
      awayFormConsistency == calculateFormConsistency(as.recentForm)
      h2hConfidence == MathMin(One, Rat(h2h.totalMatches, 5))
      confidence == RAdd(RAdd(RMul(homeFormConsistency, d0_3),
                              RMul(awayFormConsistency, d0_3)),
                         RMul(h2hConfidence, d0_4))
  IN  MathMax(d0_1, MathMin(One, confidence))

drawProbability_NoFloor(homeWinProb, awayWinProb) ==
  RSub(RSub(One, homeWinProb), awayWinProb)

drawProbability(homeWinProb, awayWinProb) ==
  MathMax(Zero, RSub(RSub(One, homeWinProb), awayWinProb))

under2_5GoalsProbability_Clamped(over2_5GoalsProb) ==
  MathMax(d0_2, RSub(One, over2_5GoalsProb))

under2_5GoalsProbability(over2_5GoalsProb) ==
  MathMax(Zero, RSub(One, over2_5GoalsProb))

winOrDrawProbability_Capped(winProb, drawProb) ==
  MathMin(d0_9, RAdd(winProb, drawProb))

\* homeWinProb + drawProb and awayWinProb + drawProb
winOrDrawProbability(winProb, drawProb) == RAdd(winProb, drawProb)

\* the record built by generateMatchPrediction for match id matchId
BuildPrediction(matchId, hs, as, h2h) ==
  LET homeWinProb == calculateHomeWinProbability(hs, as, h2h)
      awayWinProb == calculateAwayWinProbability(hs, as, h2h)
      drawProb == drawProbability(homeWinProb, awayWinProb)
      bothTeamsScoreProb == calculateBothTeamsScoreProbability(hs, as, h2h)
      over2_5GoalsProb == calculateOver2_5GoalsProbability(hs, as, h2h)
      under2_5GoalsProb == under2_5GoalsProbability(over2_5GoalsProb)
      confidenceScore == calculateConfidenceScore(hs, as, h2h)
  IN  [match_id |-> matchId,
       home_win_probability |-> homeWinProb,
       draw_probability |-> drawProb,
       away_win_probability |-> awayWinProb,
       both_teams_score_probability |-> bothTeamsScoreProb,
       over_2_5_goals_probability |-> over2_5GoalsProb,
       under_2_5_goals_probability |-> under2_5GoalsProb,
       home_win_or_draw_probability |-> winOrDrawProbability(homeWinProb, drawProb),
       away_win_or_draw_probability |-> winOrDrawProbability(awayWinProb, drawProb),
       home_handicap_1_5_probability |->
         calculateHandicapProbability(homeWinProb, d1_5),
       away_handicap_1_5_probability |->
         calculateHandicapProbability(awayWinProb, d1_5),
       confidence_score |-> confidenceScore]

getDefaultTeamStats ==
  [recentForm |-> <<"D", "D", "D", "D", "D">>,
   goalsScored |-> 0,
   goalsConceded |-> 0,
   cleanSheets |-> 0,
   failedToScore |-> 0,
   averageGoalsScored |-> One,
   averageGoalsConceded |-> One]

getDefaultHeadToHeadStats ==
  [totalMatches |-> 0,
   homeWins |-> 0,
   awayWins |-> 0,
   draws |-> 0,
   averageGoals |-> d2_5,
   bothTeamsScored |-> 0,
   over2_5Goals |-> 0]

(***************************************************************************)
(* Persistent store and external source                                    *)
(***************************************************************************)
Null == -1

Now == 0
\* 48 hours, in days
Window == 2
QueryLimit == 10
FormLimit == 5

Teams == {1, 2}
FixtureIds == 1..MaxFixtures

\* status.short codes of the source; TBD and SUSP are codes the switch
\* does not list
StatusCodes == {"NS", "1H", "2H", "HT", "FT", "AET", "PEN", "PST", "CANC",
                "TBD", "SUSP"}
PlayedCodes == {"1H", "2H", "HT", "FT", "AET", "PEN"}

FixtureDate(i) == 2 * i - 3
FixtureHome(i) == IF i % 2 = 1 THEN 1 ELSE 2
FixtureAway(i) == IF i % 2 = 1 THEN 2 ELSE 1

\* fixtures the source can return: a fixture that has kicked off carries
\* goals, the others carry null goals
SourceFixtures ==
  { [id |-> i, date |-> FixtureDate(i), home |-> FixtureHome(i),
     away |-> FixtureAway(i), short |-> c, home_goals |-> hg,
     away_goals |-> ag] :
      i \in FixtureIds, c \in PlayedCodes, hg \in 0..MaxGoals, ag \in 0..MaxGoals }
  \cup
  { [id |-> i, date |-> FixtureDate(i), home |-> FixtureHome(i),
     away |-> FixtureAway(i), short |-> c, home_goals |-> Null,
     away_goals |-> Null] :
      i \in FixtureIds, c \in StatusCodes \ PlayedCodes }

mapFixtureStatus_ExtraTimeLive(status) ==
  CASE status = "NS" -> "SCHEDULED"
    [] status \in {"1H", "2H", "HT", "AET"} -> "LIVE"
    [] status \in {"FT", "PEN"} -> "FINISHED"
    [] status \in {"PST", "CANC"} -> "CANCELLED"
    [] OTHER -> "SCHEDULED"

mapFixtureStatus(status) ==
  CASE status = "NS" -> "SCHEDULED"
    [] status \in {"1H", "2H", "HT"} -> "LIVE"
    [] status \in {"FT", "AET", "PEN"} -> "FINISHED"
    [] status \in {"PST", "CANC"} -> "CANCELLED"
    [] OTHER -> "SCHEDULED"

\* the object updateMatches builds from a fixture: it has no id field
MatchPayload(fixture) ==
  [date |-> fixture.date,
   home_team_id |-> fixture.home,
   away_team_id |-> fixture.away,
   home_goals |-> fixture.home_goals,
   away_goals |-> fixture.away_goals,
   status |-> mapFixtureStatus(fixture.short)]

\* the columns of a row other than its key
RowValues(r) ==
  [date |-> r.date,
   home_team_id |-> r.home_team_id,
   away_team_id |-> r.away_team_id,
   home_goals |-> r.home_goals,
   away_goals |-> r.away_goals,
   status |-> r.status]

WithId(payload, id) ==
  [id |-> id,
   date |-> payload.date,
   home_team_id |-> payload.home_team_id,
   away_team_id |-> payload.away_team_id,
   home_goals |-> payload.home_goals,
   away_goals |-> payload.away_goals,
   status |-> payload.status]

\* id the store gives the row of an upsert: the payload's own id when it
\* has one, else the next value of the SERIAL sequence
UpsertId(payload, serial) ==
  IF "id" \in DOMAIN payload THEN payload.id ELSE serial

\* INSERT ... ON CONFLICT (id) DO UPDATE
UpsertMatches(rows, payload, serial) ==
  LET id == UpsertId(payload, serial)
  IN  {r \in rows : r.id # id} \cup {WithId(payload, id)}

\* a value written to a column DECIMAL(p, s) with 10^s = unit: rounded to
\* s decimal places, halves away from zero
Numeric(x, unit) ==
  IF x.n >= 0 THEN Rat((2 * x.n * unit + x.d) \div (2 * x.d), unit)
  ELSE Rat(0 - ((2 * (0 - x.n) * unit + x.d) \div (2 * x.d)), unit)

\* the request body carries NaN as null, and every probability column and
\* confidence_score is NOT NULL
StoreAccepts(p) ==
  \A c \in (DOMAIN p) \ {"match_id"} : ~IsNaN(p[c])

\* the row of predictions the store keeps for the payload p: the
\* probabilities are DECIMAL(5,4), confidence_score is DECIMAL(3,2)
StoredPrediction(p) ==
  [c \in DOMAIN p |->
     IF c = "match_id" THEN p[c]
     ELSE IF c = "confidence_score" THEN Numeric(p[c], 100)
     ELSE Numeric(p[c], 10000)]

UpsertPredictions_Insert(table, p) == table \cup {StoredPrediction(p)}

\* INSERT ... ON CONFLICT (match_id) DO UPDATE on predictions
UpsertPredictions(table, p) ==
  {r \in table : r.match_id # p.match_id} \cup {StoredPrediction(p)}

(***************************************************************************)
(* Form and history aggregator                                             *)
(***************************************************************************)
\* the sequences a query can return for the rows in rs:
\* .order('date', { ascending: false }), rows of equal date in any order
RECURSIVE OrderedByDateDesc(_)
OrderedByDateDesc(rs) ==
  IF rs = {} THEN {<<>>}
  ELSE UNION {{<<r>> \o q : q \in OrderedByDateDesc(rs \ {r})} :
                r \in {x \in rs : \A y \in rs : x.date >= y.date}}

Limit(q, k) == IF Len(q) <= k THEN q ELSE SubSeq(q, 1, k)

\* results of the query of getTeamFormStats
TeamQuery(rows, teamId) ==
  {Limit(q, QueryLimit) :
     q \in OrderedByDateDesc({r \in rows :
             /\ (r.home_team_id = teamId \/ r.away_team_id = teamId)
             /\ r.status = "FINISHED"})}

\* results of the query of getHeadToHeadStats
HeadToHeadQuery(rows, homeTeamId, awayTeamId) ==
  {Limit(q, QueryLimit) :
     q \in OrderedByDateDesc({r \in rows :
             /\ \/ (r.home_team_id = homeTeamId /\ r.away_team_id = awayTeamId)
                \/ (r.home_team_id = awayTeamId /\ r.away_team_id = homeTeamId)
             /\ r.status = "FINISHED"})}

TeamGoals(m, teamId) ==
  IF m.home_team_id = teamId THEN m.home_goals ELSE m.away_goals

OpponentGoals(m, teamId) ==
  IF m.home_team_id = teamId THEN m.away_goals ELSE m.home_goals

FormResult(m, teamId) ==
  IF TeamGoals(m, teamId) > OpponentGoals(m, teamId) THEN "W"
  ELSE IF TeamGoals(m, teamId) < OpponentGoals(m, teamId) THEN "L"
  ELSE "D"

RECURSIVE SumOver(_, _, _, _)
\* q.reduce((total, m) => total + Goals(m, teamId), 0) over the first k rows
SumOver(q, k, teamId, scored) ==
  IF k = 0 THEN 0
  ELSE SumOver(q, k - 1, teamId, scored)
       + (IF scored THEN TeamGoals(q[k], teamId) ELSE OpponentGoals(q[k], teamId))

\* q.filter(pred): the subsequence of q whose indices are in keep
RECURSIVE FilterSeq(_, _, _)
FilterSeq(q, k, keep) ==
  IF k = 0 THEN <<>>
  ELSE IF k \in keep THEN Append(FilterSeq(q, k - 1, keep), q[k])
       ELSE FilterSeq(q, k - 1, keep)

\* getTeamFormStats once the query has returned the rows data without error
TeamStatsOf(data, teamId, isHome) ==
  LET teamMatches ==
        FilterSeq(data, Len(data),
                  {i \in 1..Len(data) : data[i].home_team_id = teamId
                                        \/ data[i].away_team_id = teamId})
      len == Len(teamMatches)
      recent == Limit(teamMatches, FormLimit)
      recentForm == [i \in 1..Len(recent) |-> FormResult(recent[i], teamId)]
      goalsScored == SumOver(teamMatches, len, teamId, TRUE)
      goalsConceded == SumOver(teamMatches, len, teamId, FALSE)
      cleanSheets ==
        Cardinality({i \in 1..len : OpponentGoals(teamMatches[i], teamId) = 0})
      failedToScore ==
        Cardinality({i \in 1..len : TeamGoals(teamMatches[i], teamId) = 0})
      averageGoalsScored == RDiv(Int2Rat(goalsScored), Int2Rat(len))
      averageGoalsConceded == RDiv(Int2Rat(goalsConceded), Int2Rat(len))
      homeMatches ==
        FilterSeq(teamMatches, len,
                  {i \in 1..len : teamMatches[i].home_team_id = teamId})
      awayMatches ==
        FilterSeq(teamMatches, len,
                  {i \in 1..len : teamMatches[i].away_team_id = teamId})
      homeAdvantage ==
        IF isHome /\ Len(homeMatches) > 0
        THEN RSub(RDiv(Int2Rat(SumOver(homeMatches, Len(homeMatches), teamId, TRUE)),
                       Int2Rat(Len(homeMatches))),
                  averageGoalsScored)
        ELSE Zero
      awayDisadvantage ==
        IF ~isHome /\ Len(awayMatches) > 0
        THEN RSub(averageGoalsScored,
                  RDiv(Int2Rat(SumOver(awayMatches, Len(awayMatches), teamId, TRUE)),
                       Int2Rat(Len(awayMatches))))
        ELSE Zero
  IN  [recentForm |-> recentForm,
       goalsScored |-> goalsScored,
       goalsConceded |-> goalsConceded,
       cleanSheets |-> cleanSheets,
       failedToScore |-> failedToScore,
       averageGoalsScored |-> averageGoalsScored,
       averageGoalsConceded |-> averageGoalsConceded,
       homeAdvantage |-> homeAdvantage,
       awayDisadvantage |-> awayDisadvantage]

\* outcome "error": the query returned an error or threw
getTeamFormStats(outcome, data, teamId, isHome) ==
  IF outcome = "error" THEN getDefaultTeamStats
  ELSE TeamStatsOf(data, teamId, isHome)

H2HHomeGoals_HomeSide(m, homeTeamId) == m.home_goals

\* isHomeTeamHome ? match.home_goals : match.away_goals
H2HHomeGoals(m, homeTeamId) ==
  IF m.home_team_id = homeTeamId THEN m.home_goals ELSE m.away_goals

H2HAwayGoals(m, homeTeamId) ==
  IF m.home_team_id = homeTeamId THEN m.away_goals ELSE m.home_goals

RECURSIVE SumTotalGoals(_, _)
SumTotalGoals(q, k) ==
  IF k = 0 THEN 0
  ELSE SumTotalGoals(q, k - 1) + q[k].home_goals + q[k].away_goals

HeadToHeadStatsOf(data, homeTeamId) ==
  LET totalMatches == Len(data)
      idx == 1..totalMatches
      hg(i) == H2HHomeGoals(data[i], homeTeamId)
      ag(i) == H2HAwayGoals(data[i], homeTeamId)
      totalGoals == SumTotalGoals(data, totalMatches)
  IN  [totalMatches |-> totalMatches,
       homeWins |-> Cardinality({i \in idx : hg(i) > ag(i)}),
       awayWins |-> Cardinality({i \in idx : ag(i) > hg(i)}),
       draws |-> Cardinality({i \in idx : hg(i) = ag(i)}),
       averageGoals |-> IF totalMatches > 0
                        THEN RDiv(Int2Rat(totalGoals), Int2Rat(totalMatches))
                        ELSE Zero,
       bothTeamsScored |-> Cardinality({i \in idx : hg(i) > 0 /\ ag(i) > 0}),
       \* homeGoals + awayGoals > 2.5 on integers
       over2_5Goals |-> Cardinality({i \in idx : hg(i) + ag(i) >= 3})]

getHeadToHeadStats(outcome, data, homeTeamId) ==
  IF outcome = "error" THEN getDefaultHeadToHeadStats
  ELSE HeadToHeadStatsOf(data, homeTeamId)

getUpcomingMatches_AnyStatus(rows) ==
  {r \in rows : r.date >= Now /\ r.date <= Now + Window}

\* rows the query of getUpcomingMatches returns
getUpcomingMatches(rows) ==
  {r \in rows : r.date >= Now /\ r.date <= Now + Window /\ r.status = "SCHEDULED"}

(***************************************************************************)
(* Ingestion and generation over the store                                 *)
(***************************************************************************)
None == [op |-> "none"]
Outcomes == {"ok", "error"}

\* no run of updateAllData in progress
IdleIngest ==
  [pc |-> "idle", trigger |-> "none", league |-> 0, queue |-> <<>>,
   invoked |-> <<>>, failed |-> {}, result |-> "none"]

\* no run of generatePredictions in progress
IdleGen ==
  [pc |-> "idle", trigger |-> "none", loaded |-> FALSE, serial |-> 0,
   list |-> <<>>, idx |-> 0, locals |-> None,
   issued |-> {}, thrown |-> {}, result |-> "none"]

\* a configured process that serves requests, between two runs
JobsIdle ==
  /\ env = [supabase |-> TRUE, apiKey |-> TRUE]
  /\ proc = "serving"
  /\ ingest = IdleIngest
  /\ gen = IdleGen
  /\ requested = FALSE

\* SUPPORTED_LEAGUES as shipped: every league is active
AllActive == [i \in 1..NumLeagues |-> TRUE]

\* a source whose teams and fixtures carry neither venue nor statistics
PlainSource ==
  [teamVenue |-> FALSE, fixtureVenue |-> "none", short |-> "NS",
   statistics |-> FALSE, down |-> "none"]

RunIds == 1..NumRuns

\* a call of updateAllData that has not been made
IdleRun ==
  [pc |-> "idle", league |-> 0, queue |-> <<>>, stats |-> <<>>, log |-> <<>>]

\* the tables other than matches and predictions are empty and no call of
\* updateAllData is followed await by await
PassIdle ==
  /\ leagues = {}
  /\ teams = {}
  /\ venues = {}
  /\ match_statistics = {}
  /\ active = AllActive
  /\ source = PlainSource
  /\ runs = [r \in RunIds |-> IdleRun]
  /\ twin = None

Init ==
  /\ matches = {}
  /\ nextMatchId = 1
  /\ origin = <<>>
  /\ predictions = {}
  /\ last = None
  /\ homeStats = getDefaultTeamStats
  /\ awayStats = getDefaultTeamStats
  /\ headToHead = getDefaultHeadToHeadStats
  /\ prediction = None
  /\ form = <<>>
  /\ formScore = None
  /\ JobsIdle
  /\ PassIdle

\* one iteration of the fixture loop of updateMatches: the upsert of the
\* row built from the fixture, accepted by the store
UpsertMatchOk(fixture) ==
  /\ nextMatchId <= MaxRows
  /\ LET payload == MatchPayload(fixture)
         id == UpsertId(payload, nextMatchId)
     IN  /\ matches' = UpsertMatches(matches, payload, nextMatchId)
         /\ nextMatchId' = IF "id" \in DOMAIN payload THEN nextMatchId
                           ELSE nextMatchId + 1
         /\ origin' = [r \in (DOMAIN origin) \cup {id} |->
                         IF r = id THEN fixture.id ELSE origin[r]]
         /\ last' = [op |-> "updateMatches", fixture |-> fixture,
                     status |-> payload.status, error |-> FALSE]
  /\ UNCHANGED <<predictions, engineVars, formVars, passVars, pairVars, jobVars>>

\* the same iteration when the store answers the upsert with an error,
\* which the code logs
UpsertMatchError(fixture) ==
  /\ fixture \in SourceFixtures
  /\ last' = [op |-> "updateMatches", error |-> TRUE]
  /\ UNCHANGED <<matches, nextMatchId, origin, predictions, engineVars, formVars, passVars, pairVars, jobVars>>

\* what generateMatchPrediction computes for match from the outcomes and
\* the rows of its three queries (home, away, head to head): its local
\* values and the prediction it returns; saved and replaced record whether
\* savePrediction wrote the row and whether it replaced a different snapshot
MatchPrediction(match, outcome, data) ==
  LET hs == getTeamFormStats(outcome[1], data[1], match.home_team_id, TRUE)
      as == getTeamFormStats(outcome[2], data[2], match.away_team_id, FALSE)
      h2h == getHeadToHeadStats(outcome[3], data[3], match.home_team_id)
  IN  [op |-> "generate", match |-> match.id,
       homeOutcome |-> outcome[1], homeFound |-> Len(data[1]),
       awayOutcome |-> outcome[2], awayFound |-> Len(data[2]),
       h2hOutcome |-> outcome[3], h2hFound |-> Len(data[3]),
       homeStats |-> hs, awayStats |-> as, headToHead |-> h2h,
       prediction |-> BuildPrediction(match.id, hs, as, h2h),
       saved |-> FALSE, replaced |-> FALSE]

\* one iteration of the loop of generatePredictions: generateMatchPrediction
\* for an upcoming match, then savePrediction
GenerateMatchPrediction(match, homeOutcome, awayOutcome, h2hOutcome) ==
  /\ match \in getUpcomingMatches(matches)
  /\ \E homeData \in TeamQuery(matches, match.home_team_id),
        awayData \in TeamQuery(matches, match.away_team_id),
        h2hData \in HeadToHeadQuery(matches, match.home_team_id, match.away_team_id) :
       \E generated \in {MatchPrediction(match, <<homeOutcome, awayOutcome, h2hOutcome>>,
                                          <<homeData, awayData, h2hData>>)},
          saveOutcome \in Outcomes :
         LET saved == saveOutcome = "ok" /\ StoreAccepts(generated.prediction)
             replaced == saved /\ \E r \in predictions :
                                    /\ r.match_id = match.id
                                    /\ r # StoredPrediction(generated.prediction)
         IN  /\ last' = [generated EXCEPT !.saved = saved, !.replaced = replaced]
             /\ predictions' = IF saved
                               THEN UpsertPredictions(predictions, generated.prediction)
                               ELSE predictions
  /\ UNCHANGED <<matches, nextMatchId, origin, engineVars, formVars, passVars, pairVars, jobVars>>

Next ==
  \/ \E fixture \in SourceFixtures : UpsertMatchOk(fixture)
  \/ \E fixture \in SourceFixtures : UpsertMatchError(fixture)
  \/ \E match \in matches, ho, ao, qo \in Outcomes :
       GenerateMatchPrediction(match, ho, ao, qo)

Spec == Init /\ [][Next]_vars

(***************************************************************************)
(* The engine on its own: generateMatchPrediction from the three           *)
(* aggregates onwards, for aggregates drawn from bounded sets              *)
(***************************************************************************)
W5 == <<"W", "W", "W", "W", "W">>
L5 == <<"L", "L", "L", "L", "L">>
ScenarioHomeForm == <<"W", "W", "W", "D", "L">>
ScenarioAwayForm == <<"L", "D", "L", "L", "W">>

EngineForms ==
  {<<>>, getDefaultTeamStats.recentForm, W5, L5,
   ScenarioHomeForm, ScenarioAwayForm}

\* <<averageGoalsScored, averageGoalsConceded>>
EngineAverages ==
  {<<Zero, Zero>>, <<One, One>>, <<d2, d0_8>>,
   <<d0_6, Rat(18, 10)>>, <<Int2Rat(4), Int2Rat(4)>>}

EngineTeamStats ==
  {[getDefaultTeamStats EXCEPT !.recentForm = f,
                               !.averageGoalsScored = a[1],
                               !.averageGoalsConceded = a[2]] :
     f \in EngineForms, a \in EngineAverages}

\* <<totalMatches, homeWins, awayWins, bothTeamsScored = over2_5Goals>>:
\* every split of the meetings into home wins, away wins and draws, with
\* none or all of them counted as both-scored and over 2.5
H2HCounts ==
  {c \in (0..MaxH2H) \X (0..MaxH2H) \X (0..MaxH2H) \X (0..MaxH2H) :
     /\ c[2] + c[3] <= c[1]
     /\ c[4] \in {0, c[1]}}

\* the engine does not read averageGoals
EngineHeadToHead ==
  {[getDefaultHeadToHeadStats EXCEPT !.totalMatches = c[1],
                                     !.homeWins = c[2],
                                     !.awayWins = c[3],
                                     !.draws = c[1] - c[2] - c[3],
                                     !.bothTeamsScored = c[4],
                                     !.over2_5Goals = c[4]] : c \in H2HCounts}

InitEngine ==
  /\ matches = {}
  /\ nextMatchId = 1
  /\ origin = <<>>
  /\ predictions = {}
  /\ last = None
  /\ homeStats \in EngineTeamStats
  /\ awayStats \in EngineTeamStats
  /\ headToHead \in EngineHeadToHead
  /\ prediction = None
  /\ form = <<>>
  /\ formScore = None
  /\ JobsIdle
  /\ PassIdle

Calculate ==
  /\ prediction = None
  /\ prediction' = BuildPrediction(0, homeStats, awayStats, headToHead)
  /\ UNCHANGED <<storeVars, homeStats, awayStats, headToHead, formVars, jobVars,
                 passVars, pairVars>>

NextEngine == Calculate

SpecEngine == InitEngine /\ [][NextEngine]_vars

(***************************************************************************)
(* calculateFormScore on its own, for every form up to MaxFormLen results  *)
(***************************************************************************)
Forms == UNION {[1..n -> Results] : n \in 0..MaxFormLen}

InitForm ==
  /\ matches = {}
  /\ nextMatchId = 1
  /\ origin = <<>>
  /\ predictions = {}
  /\ last = None
  /\ homeStats = getDefaultTeamStats
  /\ awayStats = getDefaultTeamStats
  /\ headToHead = getDefaultHeadToHeadStats
  /\ prediction = None
  /\ form \in Forms
  /\ formScore = None
  /\ JobsIdle
  /\ PassIdle

CalculateFormScore ==
  /\ formScore = None
  /\ formScore' = calculateFormScore(form)
  /\ UNCHANGED <<storeVars, engineVars, form, jobVars, passVars, pairVars>>

NextForm == CalculateFormScore

SpecForm == InitForm /\ [][NextForm]_vars

(***************************************************************************)
(* Two invocations of the engine side by side: the second one, twin, is    *)
(* given the aggregates of the first with other values in some of the      *)
(* fields the calculate functions do not read                              *)
(***************************************************************************)
\* team aggregates handed to the engine: two forms, two pairs of averages
PairTeamStats ==
  {[recentForm |-> f,
    goalsScored |-> 0,
    goalsConceded |-> 0,
    cleanSheets |-> 0,
    failedToScore |-> 0,
    averageGoalsScored |-> a[1],
    averageGoalsConceded |-> a[2],
    homeAdvantage |-> Zero,
    awayDisadvantage |-> Zero] :
     f \in {ScenarioHomeForm, ScenarioAwayForm},
     a \in {<<One, One>>, <<d2, d0_8>>}}

PairHeadToHead ==
  {[totalMatches |-> 4,
    homeWins |-> w,
    awayWins |-> 3 - w,
    draws |-> 1,
    averageGoals |-> d1_5,
    bothTeamsScored |-> w,
    over2_5Goals |-> w] : w \in {1, 2}}

\* the fields of the aggregates that the calculate functions do not read
UnreadTeamFields ==
  {"goalsScored", "goalsConceded", "cleanSheets", "failedToScore",
   "homeAdvantage", "awayDisadvantage"}

UnreadHeadToHeadFields == {"draws", "averageGoals"}

\* another value for each of these fields
OtherTeamValues ==
  [goalsScored |-> 7, goalsConceded |-> 5, cleanSheets |-> 2,
   failedToScore |-> 1, homeAdvantage |-> Half, awayDisadvantage |-> d0_3]

OtherHeadToHeadValues == [draws |-> 0, averageGoals |-> Int2Rat(4)]

\* stats with the other value in the fields of changed
WithOther(stats, changed, values) ==
  [f \in DOMAIN stats |-> IF f \in changed THEN values[f] ELSE stats[f]]

\* which fields the second invocation is given other values in: any fields
\* of one aggregate, or all fields of the three
PairChanges ==
  {<<S, {}, {}>> : S \in SUBSET UnreadTeamFields}
  \cup {<<{}, S, {}>> : S \in SUBSET UnreadTeamFields}
  \cup {<<{}, {}, S>> : S \in SUBSET UnreadHeadToHeadFields}
  \cup {<<UnreadTeamFields, UnreadTeamFields, UnreadHeadToHeadFields>>}

InitPair ==
  /\ matches = {}
  /\ nextMatchId = 1
  /\ origin = <<>>
  /\ predictions = {}
  /\ last = None
  /\ homeStats \in PairTeamStats
  /\ awayStats \in PairTeamStats
  /\ headToHead \in PairHeadToHead
  /\ prediction = None
  /\ form = <<>>
  /\ formScore = None
  /\ JobsIdle
  /\ leagues = {}
  /\ teams = {}
  /\ venues = {}
  /\ match_statistics = {}
  /\ active = AllActive
  /\ source = PlainSource
  /\ runs = [r \in RunIds |-> IdleRun]
  /\ \E changed \in PairChanges :
       twin = [homeStats |-> WithOther(homeStats, changed[1], OtherTeamValues),
               awayStats |-> WithOther(awayStats, changed[2], OtherTeamValues),
               headToHead |-> WithOther(headToHead, changed[3],
                                        OtherHeadToHeadValues),
               prediction |-> None]

\* the second invocation of generateMatchPrediction, from its aggregates
\* onwards
CalculateTwin ==
  /\ twin.prediction = None
  /\ twin' = [twin EXCEPT
                !.prediction = BuildPrediction(0, twin.homeStats, twin.awayStats,
                                               twin.headToHead)]
  /\ UNCHANGED <<storeVars, engineVars, formVars, jobVars, passVars>>

NextPair ==
  \/ Calculate
  \/ CalculateTwin

SpecPair == InitPair /\ [][NextPair]_vars

(***************************************************************************)
(* getHeadToHeadStats on its own, over stores that hold up to MaxHistory   *)
(* finished meetings of teams 1 and 2, more than the query's limit         *)
(***************************************************************************)
\* the i-th most recent meeting: sides says which team is at home in which
\* meeting, shift and stride spread the goals over 0..MaxScore
Meeting(i, sides, shift, stride) ==
  LET home == CASE sides = "first" -> 1
                [] sides = "second" -> 2
                [] OTHER -> IF i % 2 = 1 THEN 1 ELSE 2
  IN  [id |-> i,
       date |-> 0 - i,
       home_team_id |-> home,
       away_team_id |-> 3 - home,
       home_goals |-> (i + shift) % (MaxScore + 1),
       away_goals |-> (i * stride) % (MaxScore + 1),
       status |-> "FINISHED"]

\* a match of the two teams still to be played
Pending(n) ==
  [id |-> n + 1, date |-> 1, home_team_id |-> 1, away_team_id |-> 2,
   home_goals |-> Null, away_goals |-> Null, status |-> "SCHEDULED"]

HistoryStores ==
  {{Meeting(i, sides, shift, stride) : i \in 1..n} \cup {Pending(n)} :
     n \in 0..MaxHistory, sides \in {"first", "second", "alternate"},
     shift \in 0..MaxScore, stride \in 0..MaxScore}

InitHistory ==
  /\ matches \in HistoryStores
  /\ nextMatchId = 1
  /\ origin = <<>>
  /\ predictions = {}
  /\ last = None
  /\ homeStats = getDefaultTeamStats
  /\ awayStats = getDefaultTeamStats
  /\ headToHead = getDefaultHeadToHeadStats
  /\ prediction = None
  /\ form = <<>>
  /\ formScore = None
  /\ JobsIdle
  /\ PassIdle

\* a call getHeadToHeadStats(homeTeamId, awayTeamId) whose query ends with
\* outcome
GetHeadToHeadStats(homeTeamId, awayTeamId, outcome) ==
  /\ last = None
  /\ homeTeamId # awayTeamId
  /\ \E data \in HeadToHeadQuery(matches, homeTeamId, awayTeamId) :
       last' = [op |-> "getHeadToHeadStats", homeTeamId |-> homeTeamId,
                outcome |-> outcome, data |-> data,
                headToHead |-> getHeadToHeadStats(outcome, data, homeTeamId)]
  /\ UNCHANGED <<matches, nextMatchId, origin, predictions, engineVars, formVars,
                 jobVars, passVars, pairVars>>

NextHistory ==
  \E homeTeamId, awayTeamId \in Teams, outcome \in Outcomes :
    GetHeadToHeadStats(homeTeamId, awayTeamId, outcome)

SpecHistory == InitHistory /\ [][NextHistory]_vars

(***************************************************************************)
(* The batch jobs as the process runs them: updateAllData and              *)
(* generatePredictions, one step per awaited call, started by startServer, *)
(* by the two cron schedules and by the update script.  At most one run of *)
(* each job is in progress at a time.                                      *)
(***************************************************************************)
\* the list of types/index.ts, each league switched on or off by active
SUPPORTED_LEAGUES == [i \in 1..NumLeagues |-> [id |-> i, active |-> active[i]]]

\* first active league after position after, 0 when there is none
NextActiveLeague_AnyLeague(after) ==
  IF after < NumLeagues THEN after + 1 ELSE 0

NextActiveLeague(after) ==
  LET later == {i \in DOMAIN SUPPORTED_LEAGUES :
                  i > after /\ SUPPORTED_LEAGUES[i].active}
  IN  IF later = {} THEN 0 ELSE CHOOSE i \in later : \A j \in later : i <= j

FixtureLeague(i) == ((i - 1) % NumLeagues) + 1

\* the fixtures a league's request returns in the runs: not started, or
\* finished 1-0
JobFixtures(l) ==
  {f \in SourceFixtures :
     /\ FixtureLeague(f.id) = l
     /\ \/ f.short = "NS"
        \/ f.short = "FT" /\ f.home_goals = 1 /\ f.away_goals = 0}

SortedIds(S) ==
  CHOOSE q \in [1..Cardinality(S) -> S] :
    \A i, j \in 1..Cardinality(S) : i < j => q[i] < q[j]

\* response.data of the fixtures request of league l
FixtureResponses(l) ==
  LET ids == SortedIds({i \in FixtureIds : FixtureLeague(i) = l})
  IN  {q \in [1..Len(ids) -> JobFixtures(l)] :
         \A k \in 1..Len(ids) : q[k].id = ids[k]}

\* what a request to the source can come back with: data, no data, or a
\* failure; without the key the source gives no data
RequestOutcomes ==
  IF env.apiKey THEN {"ok", "empty", "error"} ELSE {"empty", "error"}

IngestRunning == ingest.pc \notin {"idle", "done"}
GenRunning == gen.pc \notin {"idle", "done"}

\* generatePredictions up to its first await: the query of
\* getUpcomingMatches is issued
StartedGen(trigger) ==
  [IdleGen EXCEPT !.pc = "load", !.trigger = trigger, !.result = "pending"]

\* updateAllData up to its first await: the league request of the first
\* active league is issued
StartedIngest(trigger) ==
  LET first == NextActiveLeague(0)
  IN  [IdleIngest EXCEPT !.pc = "info", !.trigger = trigger, !.league = first,
                         !.invoked = <<first>>, !.result = "pending"]

updateLeagueData_Rethrows(failure) ==
  IF failure THEN "threw" ELSE "returned"

\* how updateLeagueData ends when a request or upsert of the league failed
\* (failure) or not: every failure is caught and logged
updateLeagueData(failure) == "returned"

\* the league with its failure noted
Failing(run, failure) ==
  IF failure THEN [run EXCEPT !.failed = @ \cup {run.league}] ELSE run

\* updateLeagueInfo: the league request returns; its row is upserted
UpdateLeagueInfo ==
  /\ ingest.pc = "info"
  /\ \E response \in RequestOutcomes, upsert \in Outcomes :
       ingest' = [Failing(ingest, response = "error"
                                  \/ (response = "ok" /\ upsert = "error"))
                  EXCEPT !.pc = "teams"]
  /\ requested' = TRUE
  /\ UNCHANGED <<storeVars, engineVars, formVars, passVars, pairVars, env, proc, gen>>

\* updateTeams: the teams request returns; teams and venues are upserted
UpdateTeams ==
  /\ ingest.pc = "teams"
  /\ \E response \in RequestOutcomes, upsert \in Outcomes :
       ingest' = [Failing(ingest, response = "error"
                                  \/ (response = "ok" /\ upsert = "error"))
                  EXCEPT !.pc = "fixtures"]
  /\ requested' = TRUE
  /\ UNCHANGED <<storeVars, engineVars, formVars, passVars, pairVars, env, proc, gen>>

\* updateMatches: the fixtures request returns
UpdateMatches ==
  /\ ingest.pc = "fixtures"
  /\ \E response \in RequestOutcomes, data \in FixtureResponses(ingest.league) :
       ingest' = IF response = "ok" /\ Len(data) > 0
                 THEN [ingest EXCEPT !.pc = "upsert", !.queue = data]
                 ELSE [Failing(ingest, response = "error") EXCEPT !.pc = "delay"]
  /\ UNCHANGED <<storeVars, engineVars, formVars, passVars, pairVars, env, proc, gen, requested>>

\* one iteration of the fixture loop of updateMatches: the store answers
\* the upsert of the row built from the first fixture still to write
UpdateMatchesUpsert ==
  /\ ingest.pc = "upsert"
  /\ LET fixture == Head(ingest.queue)
         payload == MatchPayload(fixture)
         id == UpsertId(payload, nextMatchId)
         rest == [ingest EXCEPT !.queue = Tail(@),
                                !.pc = IF Len(ingest.queue) = 1 THEN "delay"
                                       ELSE "upsert"]
     IN  \/ /\ nextMatchId <= MaxRows
            /\ matches' = UpsertMatches(matches, payload, nextMatchId)
            /\ nextMatchId' = IF "id" \in DOMAIN payload THEN nextMatchId
                              ELSE nextMatchId + 1
            /\ origin' = [r \in (DOMAIN origin) \cup {id} |->
                            IF r = id THEN fixture.id ELSE origin[r]]
            /\ ingest' = rest
         \/ /\ ingest' = Failing(rest, TRUE)
            /\ UNCHANGED <<matches, nextMatchId, origin>>
  /\ UNCHANGED <<predictions, last, engineVars, formVars, passVars, pairVars, env, proc, gen, requested>>

\* the delay after a league ends: updateAllData goes on to the next active
\* league, or ends and its caller continues
Delay ==
  /\ ingest.pc = "delay"
  /\ LET next == NextActiveLeague(ingest.league)
         threw == updateLeagueData(ingest.league \in ingest.failed) = "threw"
         result == IF threw THEN "rejected" ELSE "resolved"
     IN  IF ~threw /\ next # 0
         THEN /\ ingest' = [ingest EXCEPT !.pc = "info", !.league = next,
                                          !.invoked = Append(@, next)]
              /\ requested' = TRUE
              /\ UNCHANGED <<proc, gen>>
         ELSE /\ ingest' = [ingest EXCEPT !.pc = "done", !.league = 0,
                                          !.result = result]
              /\ UNCHANGED requested
              /\ gen' = IF ingest.trigger \in {"startup", "script"} /\ ~threw
                        THEN StartedGen(ingest.trigger) ELSE gen
              /\ proc' = IF ingest.trigger # "startup" THEN proc
                         ELSE IF threw THEN "exited" ELSE "initPredictions"
  /\ UNCHANGED <<storeVars, engineVars, formVars, passVars, pairVars, env>>

\* the sequences the query of getUpcomingMatches can return:
\* .order('date', { ascending: true }), rows of equal date in any order
UpcomingQuery(rows) ==
  LET rs == getUpcomingMatches(rows)
      n == Cardinality(rs)
  IN  {q \in [1..n -> rs] :
         /\ \A i, j \in 1..n : i # j => q[i] # q[j]
         /\ \A i, j \in 1..n : i < j => q[i].date <= q[j].date}

MatchById(id) == CHOOSE r \in matches : r.id = id

getUpcomingMatches_Rethrows(outcome) ==
  IF outcome = "error" THEN "threw" ELSE "returned"

\* how getUpcomingMatches ends when its query failed or not: a failure is
\* logged and answered with the empty list
getUpcomingMatchesCompletion(outcome) == "returned"

\* generatePredictions ends; PredictionService.initialize returns to
\* startServer, which schedules the cron jobs and listens
EndGen(run, result) ==
  /\ gen' = [run EXCEPT !.pc = "done", !.idx = 0, !.locals = None,
                        !.result = result]
  /\ proc' = IF run.trigger # "startup" THEN proc
             ELSE IF result = "rejected" THEN "exited" ELSE "serving"

NextMatch_EndsOnFailure(run) ==
  IF run.idx < Len(run.list) /\ run.thrown = {}
  THEN /\ gen' = [run EXCEPT !.pc = "home", !.idx = @ + 1, !.locals = None]
       /\ UNCHANGED proc
  ELSE EndGen(run, "resolved")

\* the loop of generatePredictions moves to the next match or ends
NextMatch(run) ==
  IF run.idx < Len(run.list)
  THEN /\ gen' = [run EXCEPT !.pc = "home", !.idx = @ + 1, !.locals = None]
       /\ UNCHANGED proc
  ELSE EndGen(run, "resolved")

\* getUpcomingMatches: the query returns
GetUpcomingMatches ==
  /\ gen.pc = "load"
  /\ \E outcome \in Outcomes, data \in UpcomingQuery(matches) :
       LET list == IF outcome = "ok" THEN [i \in 1..Len(data) |-> data[i].id]
                   ELSE <<>>
           run == [gen EXCEPT !.loaded = outcome = "ok", !.serial = nextMatchId,
                              !.list = list]
       IN  IF getUpcomingMatchesCompletion(outcome) = "threw"
           THEN EndGen(run, "rejected")
           ELSE NextMatch(run)
  /\ UNCHANGED <<storeVars, engineVars, formVars, passVars, pairVars, env, ingest, requested>>

\* generateMatchPrediction: the query of getTeamFormStats(home, true) returns
HomeTeamFormStats ==
  /\ gen.pc = "home"
  /\ LET match == MatchById(gen.list[gen.idx])
     IN  \E outcome \in Outcomes, data \in TeamQuery(matches, match.home_team_id) :
           gen' = [gen EXCEPT
                     !.pc = "away",
                     !.locals = [homeTeamStats |->
                                   getTeamFormStats(outcome, data, match.home_team_id, TRUE)]]
  /\ UNCHANGED <<storeVars, engineVars, formVars, passVars, pairVars, env, proc, ingest, requested>>

\* generateMatchPrediction: the query of getTeamFormStats(away, false) returns
AwayTeamFormStats ==
  /\ gen.pc = "away"
  /\ LET match == MatchById(gen.list[gen.idx])
     IN  \E outcome \in Outcomes, data \in TeamQuery(matches, match.away_team_id) :
           gen' = [gen EXCEPT
                     !.pc = "h2h",
                     !.locals = [homeTeamStats |-> gen.locals.homeTeamStats,
                                 awayTeamStats |->
                                   getTeamFormStats(outcome, data, match.away_team_id, FALSE)]]
  /\ UNCHANGED <<storeVars, engineVars, formVars, passVars, pairVars, env, proc, ingest, requested>>

\* generateMatchPrediction: the query of getHeadToHeadStats returns; either
\* an exception raised inside the try block is logged, null is returned and
\* the match is left without an upsert, or the prediction is computed and
\* handed to savePrediction, whose upsert is issued
HeadToHeadStats ==
  /\ gen.pc = "h2h"
  /\ LET match == MatchById(gen.list[gen.idx])
     IN  \/ NextMatch([gen EXCEPT !.thrown = @ \cup {match.id}])
         \/ \E outcome \in Outcomes,
               data \in HeadToHeadQuery(matches, match.home_team_id, match.away_team_id) :
              /\ gen' = [gen EXCEPT
                           !.pc = "save",
                           !.issued = @ \cup {match.id},
                           !.locals =
                             [prediction |->
                                BuildPrediction(
                                  match.id, gen.locals.homeTeamStats,
                                  gen.locals.awayTeamStats,
                                  getHeadToHeadStats(outcome, data, match.home_team_id))]]
              /\ UNCHANGED proc
  /\ UNCHANGED <<storeVars, engineVars, formVars, passVars, pairVars, env, ingest, requested>>

savePrediction_ClosesMatch(store, p) ==
  [store EXCEPT !.matches = {r \in @ : r.id # p.match_id},
                !.predictions = UpsertPredictions(@, p)]

\* the tables after the store has accepted the upsert of savePrediction,
\* which names the table predictions
savePrediction(store, p) ==
  [store EXCEPT !.predictions = UpsertPredictions(@, p)]

\* savePrediction: the store answers the upsert
SavePrediction ==
  /\ gen.pc = "save"
  /\ \E outcome \in Outcomes :
       LET store == [matches |-> matches, predictions |-> predictions]
           after == IF outcome = "ok" /\ StoreAccepts(gen.locals.prediction)
                    THEN savePrediction(store, gen.locals.prediction)
                    ELSE store
       IN  /\ predictions' = after.predictions
           /\ matches' = after.matches
  /\ NextMatch(gen)
  /\ UNCHANGED <<nextMatchId, origin, last, engineVars, formVars, passVars, pairVars,
                 env, ingest, requested>>

\* index.ts is loaded: without the store's variables the process exits,
\* else startServer awaits dataService.initialize(), which runs updateAllData
StartServer ==
  /\ proc = "start"
  /\ IF env.supabase
     THEN /\ proc' = "initData"
          /\ ingest' = StartedIngest("startup")
          /\ requested' = TRUE
     ELSE /\ proc' = "exited"
          /\ UNCHANGED <<ingest, requested>>
  /\ UNCHANGED <<storeVars, engineVars, formVars, passVars, pairVars, env, gen>>

\* cron '0 * * * *' at an odd hour: the data update alone
HourlyTrigger ==
  /\ proc = "serving"
  /\ ~IngestRunning
  /\ ingest' = StartedIngest("hourly")
  /\ requested' = TRUE
  /\ UNCHANGED <<storeVars, engineVars, formVars, passVars, pairVars, env, proc, gen>>

\* an even hour: '0 * * * *' and '0 */2 * * *' both fire; each callback
\* runs up to its first await
BiHourlyTrigger ==
  /\ proc = "serving"
  /\ ~IngestRunning
  /\ ~GenRunning
  /\ ingest' = StartedIngest("bihourly")
  /\ gen' = StartedGen("bihourly")
  /\ requested' = TRUE
  /\ UNCHANGED <<storeVars, engineVars, formVars, passVars, pairVars, env, proc>>

\* the update script (updateData): updateAllData, then generatePredictions
UpdateDataScript ==
  /\ proc = "serving"
  /\ ~IngestRunning
  /\ ~GenRunning
  /\ ingest' = StartedIngest("script")
  /\ requested' = TRUE
  /\ UNCHANGED <<storeVars, engineVars, formVars, passVars, pairVars, env, proc, gen>>

InitJobs ==
  /\ matches = {}
  /\ nextMatchId = 1
  /\ origin = <<>>
  /\ predictions = {}
  /\ last = None
  /\ homeStats = getDefaultTeamStats
  /\ awayStats = getDefaultTeamStats
  /\ headToHead = getDefaultHeadToHeadStats
  /\ prediction = None
  /\ form = <<>>
  /\ formScore = None
  /\ env \in [supabase : BOOLEAN, apiKey : BOOLEAN]
  /\ proc = "start"
  /\ ingest = IdleIngest
  /\ gen = IdleGen
  /\ requested = FALSE
  /\ PassIdle

IngestStep ==
  \/ UpdateLeagueInfo
  \/ UpdateTeams
  \/ UpdateMatches
  \/ UpdateMatchesUpsert
  \/ Delay

GenStep ==
  \/ GetUpcomingMatches
  \/ HomeTeamFormStats
  \/ AwayTeamFormStats
  \/ HeadToHeadStats
  \/ SavePrediction

NextJobs ==
  \/ StartServer
  \/ HourlyTrigger
  \/ BiHourlyTrigger
  \/ UpdateDataScript
  \/ IngestStep
  \/ GenStep

SpecJobs == InitJobs /\ [][NextJobs]_vars

(***************************************************************************)
(* updateAllData call by call: every request to the source and every       *)
(* upsert is a call that a run awaits; a step of a run is the return of    *)
(* the call it awaits, then the code up to the next call it makes.         *)
(* NumRuns calls of updateAllData are in progress side by side (the cron   *)
(* callback, the fetch-real-data route), fed the same payloads by source.  *)
(***************************************************************************)
\* id of a venue that is no team's ground
NeutralVenue == 9

SourceShapes ==
  [teamVenue : BOOLEAN, fixtureVenue : {"none", "home", "neutral"},
   short : {"NS", "1H", "FT"}, statistics : BOOLEAN,
   down : {"none", "leagues", "teams", "fixtures"}]

\* the request of this kind returns data; a request to the endpoint that is
\* down throws, which the caller catches and logs
Responds(kind) == source.down # kind

\* response.data of the teams request of league l: one team, named l, whose
\* ground has the id l
SourceTeams(l) ==
  <<[team |-> l, venue |-> IF source.teamVenue THEN l ELSE Null]>>

\* the fixture i as the fixtures request returns it, with its venue and its
\* statistics list (one entry per team)
PassFixture(i) ==
  LET played == source.short \in PlayedCodes
  IN  [id |-> i, date |-> FixtureDate(i), home |-> FixtureHome(i),
       away |-> FixtureAway(i), short |-> source.short,
       home_goals |-> IF played THEN 1 ELSE Null,
       away_goals |-> IF played THEN 0 ELSE Null,
       venue |-> CASE source.fixtureVenue = "home" -> FixtureHome(i)
                   [] source.fixtureVenue = "neutral" -> NeutralVenue
                   [] OTHER -> Null,
       statistics |-> IF source.statistics
                      THEN <<FixtureHome(i), FixtureAway(i)>> ELSE <<>>]

\* response.data of the fixtures request of league l
PassFixtures(l) ==
  LET ids == SortedIds({i \in FixtureIds : FixtureLeague(i) = l})
  IN  [k \in 1..Len(ids) |-> PassFixture(ids[k])]

\* the next value of the SERIAL id of a table from which nothing is deleted
NextSerial(table) == Cardinality(table) + 1

\* upsert of a payload without id into leagues or teams: a new row
InsertRow(table, payload) ==
  table \cup {[id |-> NextSerial(table)] @@ payload}

\* upsert([venue], { onConflict: 'id' })
UpsertVenues(table, venue) ==
  {v \in table : v.id # venue.id} \cup {venue}

\* upsert([matchStat], { onConflict: 'match_id,team_id' })
UpsertStatistics(table, stat) ==
  {x \in table : ~(x.match_id = stat.match_id /\ x.team_id = stat.team_id)}
  \cup {stat}

\* teams.venue_id REFERENCES venues(id)
TeamAccepted(team) ==
  team.venue = Null \/ \E v \in venues : v.id = team.venue

\* the run makes the call event and awaits it
Issue(run, pc, event) ==
  [run EXCEPT !.pc = pc, !.log = Append(@, event)]

\* updateLeagueInfo has returned: updateTeams makes its request
ToTeams(run) == Issue(run, "teams", <<"request", run.league, "teams">>)

\* updateTeams has returned: updateMatches makes its request
ToFixtures(run) ==
  Issue([run EXCEPT !.queue = <<>>], "fixtures",
        <<"request", run.league, "fixtures">>)

\* updateMatches has returned, and updateLeagueData with it: the delay
ToDelay(run) ==
  Issue([run EXCEPT !.queue = <<>>, !.stats = <<>>], "delay",
        <<"delay", run.league>>)

\* the loop of updateTeams over the teams still in todo
TeamLoop(run, todo) ==
  IF todo = <<>> THEN ToFixtures(run)
  ELSE Issue([run EXCEPT !.queue = todo], "team",
             <<"upsert", "teams", Head(todo).team>>)

\* the loop of updateMatches over the fixtures still in todo
FixtureLoop(run, todo) ==
  IF todo = <<>> THEN ToDelay(run)
  ELSE Issue([run EXCEPT !.queue = todo, !.stats = <<>>], "match",
             <<"upsert", "matches", Head(todo).id>>)

\* fixture.statistics && fixture.statistics.length > 0
HasStatistics(fixture) == Len(fixture.statistics) > 0

\* the loop of updateMatchStatistics over the entries still in todo
StatisticsLoop(run, todo) ==
  IF todo = <<>> THEN FixtureLoop(run, Tail(run.queue))
  ELSE Issue([run EXCEPT !.stats = todo], "statistics",
             <<"upsert", "match_statistics", Head(run.queue).id, Head(todo)>>)

\* updateAllData is called and runs up to its first await
StartRun(r) ==
  /\ runs[r].pc = "idle"
  /\ \A q \in RunIds : q < r => runs[q].pc # "idle"
  /\ LET first == NextActiveLeague(0)
     IN  runs' = [runs EXCEPT ![r] =
                    IF first = 0 THEN [@ EXCEPT !.pc = "done"]
                    ELSE Issue([@ EXCEPT !.league = first], "leagues",
                               <<"request", first, "leagues">>)]
  /\ UNCHANGED <<storeVars, engineVars, formVars, jobVars, tableVars, active,
                 source, pairVars>>

\* updateLeagueInfo: the leagues request returns
LeaguesResponse(r) ==
  /\ runs[r].pc = "leagues"
  /\ runs' = [runs EXCEPT ![r] =
                  IF Responds("leagues")
                  THEN Issue(@, "league", <<"upsert", "leagues", @.league>>)
                  ELSE ToTeams(@)]
  /\ UNCHANGED <<storeVars, engineVars, formVars, jobVars, tableVars, active,
                 source, pairVars>>

\* updateLeagueInfo: the upsert of the league returns
LeagueUpsert(r) ==
  /\ runs[r].pc = "league"
  /\ leagues' = InsertRow(leagues, [name |-> runs[r].league])
  /\ runs' = [runs EXCEPT ![r] = ToTeams(@)]
  /\ UNCHANGED <<storeVars, engineVars, formVars, jobVars, teams, venues,
                 match_statistics, active, source, pairVars>>

\* updateTeams: the teams request returns
TeamsResponse(r) ==
  /\ runs[r].pc = "teams"
  /\ runs' = [runs EXCEPT ![r] =
                  IF Responds("teams") THEN TeamLoop(@, SourceTeams(@.league))
                  ELSE ToFixtures(@)]
  /\ UNCHANGED <<storeVars, engineVars, formVars, jobVars, tableVars, active,
                 source, pairVars>>

\* updateTeams: the upsert of a team returns, refused when its venue_id
\* resolves to no venue; then the upsert of its venue, if it has one
TeamUpsert(r) ==
  /\ runs[r].pc = "team"
  /\ LET team == Head(runs[r].queue)
     IN  /\ teams' = IF TeamAccepted(team)
                      THEN InsertRow(teams, [name |-> team.team,
                                             venue_id |-> team.venue])
                      ELSE teams
         /\ runs' = [runs EXCEPT ![r] =
                       IF team.venue # Null
                       THEN Issue(@, "venue", <<"upsert", "venues", team.venue>>)
                       ELSE TeamLoop(@, Tail(@.queue))]
  /\ UNCHANGED <<storeVars, engineVars, formVars, jobVars, leagues, venues,
                 match_statistics, active, source, pairVars>>

\* updateTeams: the upsert of a venue returns
VenueUpsert(r) ==
  /\ runs[r].pc = "venue"
  /\ venues' = UpsertVenues(venues, [id |-> Head(runs[r].queue).venue])
  /\ runs' = [runs EXCEPT ![r] = TeamLoop(@, Tail(@.queue))]
  /\ UNCHANGED <<storeVars, engineVars, formVars, jobVars, leagues, teams,
                 match_statistics, active, source, pairVars>>

\* updateMatches: the fixtures request returns
FixturesResponse(r) ==
  /\ runs[r].pc = "fixtures"
  /\ runs' = [runs EXCEPT ![r] =
                  IF Responds("fixtures") THEN FixtureLoop(@, PassFixtures(@.league))
                  ELSE ToDelay(@)]
  /\ UNCHANGED <<storeVars, engineVars, formVars, jobVars, tableVars, active,
                 source, pairVars>>

\* updateMatches: the upsert of a match returns (the store accepts the row:
\* the foreign keys of matches are to ids that the store assigns)
MatchUpsert(r) ==
  /\ runs[r].pc = "match"
  /\ LET fixture == Head(runs[r].queue)
         payload == MatchPayload(fixture)
         id == UpsertId(payload, nextMatchId)
     IN  /\ matches' = UpsertMatches(matches, payload, nextMatchId)
         /\ nextMatchId' = IF "id" \in DOMAIN payload THEN nextMatchId
                           ELSE nextMatchId + 1
         /\ origin' = [x \in (DOMAIN origin) \cup {id} |->
                         IF x = id THEN fixture.id ELSE origin[x]]
         /\ runs' = [runs EXCEPT ![r] =
                       IF HasStatistics(fixture)
                       THEN StatisticsLoop(@, fixture.statistics)
                       ELSE FixtureLoop(@, Tail(@.queue))]
  /\ UNCHANGED <<predictions, last, engineVars, formVars, jobVars, tableVars,
                 active, source, pairVars>>

\* updateMatchStatistics: the upsert of one entry returns
StatisticsUpsert(r) ==
  /\ runs[r].pc = "statistics"
  /\ LET stat == [match_id |-> Head(runs[r].queue).id,
                  team_id |-> Head(runs[r].stats)]
     IN  match_statistics' = UpsertStatistics(match_statistics, stat)
  /\ runs' = [runs EXCEPT ![r] = StatisticsLoop(@, Tail(@.stats))]
  /\ UNCHANGED <<storeVars, engineVars, formVars, jobVars, leagues, teams,
                 venues, active, source, pairVars>>

\* the delay after a league ends: the next active league, or the end
DelayElapsed(r) ==
  /\ runs[r].pc = "delay"
  /\ LET next == NextActiveLeague(runs[r].league)
     IN  runs' = [runs EXCEPT ![r] =
                    IF next = 0 THEN [@ EXCEPT !.pc = "done", !.league = 0]
                    ELSE Issue([@ EXCEPT !.league = next], "leagues",
                               <<"request", next, "leagues">>)]
  /\ UNCHANGED <<storeVars, engineVars, formVars, jobVars, tableVars, active,
                 source, pairVars>>

InitPass ==
  /\ matches = {}
  /\ nextMatchId = 1
  /\ origin = <<>>
  /\ predictions = {}
  /\ last = None
  /\ homeStats = getDefaultTeamStats
  /\ awayStats = getDefaultTeamStats
  /\ headToHead = getDefaultHeadToHeadStats
  /\ prediction = None
  /\ form = <<>>
  /\ formScore = None
  /\ JobsIdle
  /\ leagues = {}
  /\ teams = {}
  /\ venues = {}
  /\ match_statistics = {}
  /\ active \in [1..NumLeagues -> BOOLEAN]
  /\ source \in SourceShapes
  /\ runs = [r \in RunIds |-> IdleRun]
  /\ twin = None

NextPass ==
  \E r \in RunIds :
    \/ StartRun(r)
    \/ LeaguesResponse(r)
    \/ LeagueUpsert(r)
    \/ TeamsResponse(r)
    \/ TeamUpsert(r)
    \/ VenueUpsert(r)
    \/ FixturesResponse(r)
    \/ MatchUpsert(r)
    \/ StatisticsUpsert(r)
    \/ DelayElapsed(r)

SpecPass == InitPass /\ [][NextPass]_vars

(***************************************************************************)
(* Properties                                                              *)
(***************************************************************************)
Computed == prediction # None
InRange(x, lo, hi) == RLe(lo, x) /\ RLe(x, hi)

\* C1: for every valid input the prediction has home_win_probability in
\* [0.1, 0.9], away_win_probability in [0.05, 0.8],
\* both_teams_score_probability and over_2_5_goals_probability in [0.2, 0.9],
\* both handicap fields in [0.1, 0.9] and confidence_score in [0.1, 1.0]
C1_ClampRanges ==
  Computed =>
    /\ InRange(prediction.home_win_probability, d0_1, d0_9)
    /\ InRange(prediction.away_win_probability, d0_05, d0_8)
    /\ InRange(prediction.both_teams_score_probability, d0_2, d0_9)
    /\ InRange(prediction.over_2_5_goals_probability, d0_2, d0_9)
    /\ InRange(prediction.home_handicap_1_5_probability, d0_1, d0_9)
    /\ InRange(prediction.away_handicap_1_5_probability, d0_1, d0_9)
    /\ InRange(prediction.confidence_score, d0_1, One)

\* a prediction whose home win sits on its lower clamp, so that the home
\* handicap is held up by its own lower clamp, and whose away win sits on
\* its upper clamp
C1_Witness ==
  /\ Computed
  /\ prediction.home_win_probability = d0_1
  /\ prediction.home_handicap_1_5_probability = d0_1
  /\ prediction.away_win_probability = d0_8

\* C6: draw_probability is never negative, is 0 whenever
\* homeWin + awayWin >= 1, and is 1 - homeWin - awayWin otherwise
C6_DrawResidual ==
  Computed =>
    LET h == prediction.home_win_probability
        a == prediction.away_win_probability
        d == prediction.draw_probability
    IN  /\ RLe(Zero, d)
        /\ RLe(One, RAdd(h, a)) => d = Zero
        /\ RLt(RAdd(h, a), One) => RAdd(RAdd(h, a), d) = One

\* a prediction whose home and away win probabilities sum to more than 1
C6_Witness ==
  /\ Computed
  /\ RLt(One, RAdd(prediction.home_win_probability,
                   prediction.away_win_probability))
  /\ prediction.draw_probability = Zero

\* C7: under_2_5_goals_probability and over_2_5_goals_probability always
\* sum to 1
C7_UnderIsComplement ==
  Computed =>
    RAdd(prediction.under_2_5_goals_probability,
         prediction.over_2_5_goals_probability) = One

\* a prediction whose over 2.5 probability sits on its upper clamp
C7_Witness ==
  /\ Computed
  /\ prediction.over_2_5_goals_probability = d0_9
  /\ prediction.under_2_5_goals_probability = d0_1

\* weights of the claim in hundredths, values of the claim in halves
C8_Weight(i) == IF i <= 5 THEN <<40, 30, 20, 8, 2>>[i] ELSE 1
C8_Value(r) == IF r = "W" THEN 2 ELSE IF r = "D" THEN 1 ELSE 0

RECURSIVE C8_Sum(_, _)
C8_Sum(f, S) ==
  IF S = {} THEN 0
  ELSE LET i == CHOOSE x \in S : TRUE
       IN  C8_Weight(i) * C8_Value(f[i]) + C8_Sum(f, S \ {i})

\* C8: calculateFormScore is 0.5 for the empty form, otherwise the sum of
\* w[i] * v(result_i); five wins score 1.0, and a form of at most five
\* results scores within [0, 1]
C8_FormScore ==
  formScore # None =>
    /\ form = <<>> => formScore = Half
    /\ form # <<>> => formScore = Rat(C8_Sum(form, DOMAIN form), 200)
    /\ form = W5 => formScore = One
    /\ Len(form) <= 5 => InRange(formScore, Zero, One)

\* the score of five wins has been computed
C8_Witness == form = W5 /\ formScore = One

NeutralInputs ==
  /\ homeStats = getDefaultTeamStats
  /\ awayStats = getDefaultTeamStats
  /\ headToHead = getDefaultHeadToHeadStats

\* C9: with all-neutral defaults the engine yields
\* home_win_probability = 0.70/1.30 and away_win_probability = 0.49/1.25,
\* neither being a clamp bound
C9_NeutralBaseline ==
  (Computed /\ NeutralInputs) =>
    /\ prediction.home_win_probability = Rat(70, 130)
    /\ prediction.away_win_probability = Rat(392, 1000)
    /\ prediction.home_win_probability \notin {d0_1, d0_9}
    /\ prediction.away_win_probability \notin {d0_05, d0_8}

\* the prediction of the neutral inputs has been computed
C9_Witness ==
  /\ Computed
  /\ NeutralInputs
  /\ prediction.away_win_probability = Rat(392, 1000)

ScenarioInputs ==
  /\ homeStats.recentForm = ScenarioHomeForm
  /\ homeStats.averageGoalsScored = Int2Rat(2)
  /\ homeStats.averageGoalsConceded = d0_8
  /\ awayStats.recentForm = ScenarioAwayForm
  /\ awayStats.averageGoalsScored = d0_6
  /\ awayStats.averageGoalsConceded = Rat(18, 10)
  /\ headToHead.totalMatches = 4
  /\ headToHead.homeWins = 3
  /\ headToHead.draws = 1
  /\ headToHead.awayWins = 0

\* C10: in the scenario home_win_probability is its unclamped weighted
\* value (0.4*0.94 + 0.3*0.83 + 0.3*0.75 + 0.1 + 0.1*1.1) / 1.3, which lies
\* strictly between 0.5 and 0.9, and confidence_score is 0.68
C10_Scenario ==
  (Computed /\ ScenarioInputs) =>
    /\ prediction.home_win_probability = Rat(1060, 1300)
    /\ RLt(Half, prediction.home_win_probability)
    /\ RLt(prediction.home_win_probability, d0_9)
    /\ prediction.confidence_score = Rat(68, 100)

\* the prediction of the scenario has been computed
C10_Witness ==
  /\ Computed
  /\ ScenarioInputs
  /\ prediction.confidence_score = Rat(68, 100)

Statuses == {"SCHEDULED", "LIVE", "FINISHED", "POSTPONED", "CANCELLED"}
Ingested == last.op = "updateMatches" /\ ~last.error

\* C2: getTeamFormStats returns exactly the neutral default both when the
\* query fails and when it succeeds with zero FINISHED matches of the team
C2_DefaultWithoutMatches ==
  last.op = "generate" =>
    /\ (last.homeOutcome = "error" \/ last.homeFound = 0)
         => last.homeStats = getDefaultTeamStats
    /\ (last.awayOutcome = "error" \/ last.awayFound = 0)
         => last.awayStats = getDefaultTeamStats

\* C3: once a fixture has been ingested, however often, the store holds
\* exactly one row for it, with the values of the latest payload
C3_UpsertIdempotent ==
  Ingested =>
    LET rs == {r \in matches : origin[r.id] = last.fixture.id}
    IN  /\ Cardinality(rs) = 1
        /\ \A r \in rs : RowValues(r) = MatchPayload(last.fixture)

\* C4: a fixture with code PST is stored as POSTPONED and a fixture with
\* code CANC as CANCELLED
C4_PostponedAndCancelled ==
  Ingested =>
    /\ last.fixture.short = "PST" => last.status = "POSTPONED"
    /\ last.fixture.short = "CANC" => last.status = "CANCELLED"

\* C5: mapFixtureStatus gives every code a status: LIVE for 1H, 2H and HT,
\* FINISHED for FT, AET and PEN, SCHEDULED for NS and for every code it
\* does not recognize
C5_StatusMapping ==
  Ingested =>
    LET c == last.fixture.short
    IN  /\ last.status \in Statuses
        /\ c \in {"1H", "2H", "HT"} => last.status = "LIVE"
        /\ c \in {"FT", "AET", "PEN"} => last.status = "FINISHED"
        /\ c = "NS" => last.status = "SCHEDULED"
        /\ c \notin {"1H", "2H", "HT", "FT", "AET", "PEN", "NS", "PST", "CANC"}
             => last.status = "SCHEDULED"
        /\ \E r \in matches : /\ origin[r.id] = last.fixture.id
                              /\ r.status = last.status

\* fixtures with an unrecognized code and with the extra-time code have
\* been stored
C5_Witness ==
  /\ Ingested
  /\ last.fixture.short = "AET"
  /\ last.status = "FINISHED"
  /\ \E r \in matches : r.status = "SCHEDULED" /\ r.home_goals = Null

\* C11: getHeadToHeadStats returns the neutral default (no matches,
\* averageGoals 2.5, every count 0) both when its query fails and when the
\* query succeeds without a FINISHED match between the pair
C11_DefaultWithoutHistory ==
  last.op = "generate" =>
    ((last.h2hOutcome = "error" \/ last.h2hFound = 0)
       => /\ last.headToHead.totalMatches = 0
          /\ last.headToHead.averageGoals = Rat(25, 10)
          /\ last.headToHead.homeWins = 0
          /\ last.headToHead.awayWins = 0
          /\ last.headToHead.draws = 0
          /\ last.headToHead.bothTeamsScored = 0
          /\ last.headToHead.over2_5Goals = 0)

\* the status of the row written last for the fixture f of the source,
\* "NONE" before its first ingestion
StoredStatus(rows, org, f) ==
  LET rs == {r \in rows : org[r.id] = f}
  IN  IF rs = {} THEN "NONE"
      ELSE (CHOOSE r \in rs : \A o \in rs : o.id <= r.id).status

Transitions ==
  {<<"SCHEDULED", "LIVE">>, <<"LIVE", "FINISHED">>,
   <<"SCHEDULED", "POSTPONED">>, <<"SCHEDULED", "CANCELLED">>}

\* C19: across ingestion passes the stored status of a match changes only
\* along SCHEDULED -> LIVE, LIVE -> FINISHED, SCHEDULED -> POSTPONED and
\* SCHEDULED -> CANCELLED
C19_StatusTransitions ==
  [][\A f \in FixtureIds :
       LET before == StoredStatus(matches, origin, f)
           after == StoredStatus(matches', origin', f)
       IN  (before # "NONE" /\ after # before)
             => <<before, after>> \in Transitions]_vars

\* the two goal factors: min(1, homeAvgScored / 2) and
\* max(0, 1 - awayAvgConceded / 2)
C18_HomeGoalsFactor ==
  MathMin(One, RDiv(homeStats.averageGoalsScored, Int2Rat(2)))

C18_AwayGoalsFactor ==
  MathMax(Zero, RSub(One, RDiv(awayStats.averageGoalsConceded, Int2Rat(2))))

\* the weighted sum with the goals adjustment adj, divided by the weights
\* 0.4 + 0.3 + 0.3 + 0.1 + 0.2 and clamped to [0.1, 0.9]
C18_Normalized(adj) ==
  LET weighted ==
        RAdd(RAdd(RAdd(RAdd(RMul(Rat(4, 10), calculateFormScore(homeStats.recentForm)),
                            RMul(Rat(3, 10),
                                 RSub(One, calculateFormScore(awayStats.recentForm)))),
                       RMul(Rat(3, 10), HomeH2HFactor(headToHead))),
                  Rat(1, 10)),
             adj)
      divisor == Rat(4 + 3 + 3 + 1 + 2, 10)
  IN  MathMax(Rat(1, 10), MathMin(Rat(9, 10), RDiv(weighted, divisor)))

\* C18 as stated: the goals adjustment of calculateHomeWinProbability is 0.1
\* times the mean of the two goal factors, and the weighted sum is divided
\* by the sum of the weights before it is clamped to [0.1, 0.9]
C18_GoalsAdjustmentMean ==
  Computed =>
    prediction.home_win_probability =
      C18_Normalized(RMul(Rat(1, 10),
                          RDiv(RAdd(C18_HomeGoalsFactor, C18_AwayGoalsFactor),
                               Int2Rat(2))))

\* C18 amended: the goals adjustment is 0.1 times the sum of the two goal
\* factors (0.2 times their mean); the weighted sum is divided by 1.3, the
\* sum of the weights, before it is clamped to [0.1, 0.9]
C18_GoalsAdjustment ==
  Computed =>
    prediction.home_win_probability =
      C18_Normalized(RMul(Rat(1, 10),
                          RAdd(C18_HomeGoalsFactor, C18_AwayGoalsFactor)))

\* both goal factors strictly between their bounds, a head-to-head record,
\* and a home win probability strictly inside its clamp
C18_Witness ==
  /\ Computed
  /\ RLt(Zero, C18_HomeGoalsFactor) /\ RLt(C18_HomeGoalsFactor, One)
  /\ RLt(Zero, C18_AwayGoalsFactor) /\ RLt(C18_AwayGoalsFactor, One)
  /\ headToHead.totalMatches > 0
  /\ RLt(Rat(1, 10), prediction.home_win_probability)
  /\ RLt(prediction.home_win_probability, Rat(9, 10))

Saved == last.op = "generate" /\ last.saved

C16_OneRowPerMatch ==
  \A r1, r2 \in predictions : r1.match_id = r2.match_id => r1 = r2

\* C16 as stated: predictions holds at most one row per match_id, and after
\* a successful regeneration that row holds exactly the values of the most
\* recent generation
C16_LatestValuesExactly ==
  /\ C16_OneRowPerMatch
  /\ Saved => \E r \in predictions : r = last.prediction

\* r is x as a column with 10^s = unit keeps it: a multiple of 1/unit at
\* most half a unit away from x
C16_RoundedTo(r, x, unit) ==
  /\ ~IsNaN(r)
  /\ unit % r.d = 0
  /\ RLe(Rat(-1, 2 * unit), RSub(r, x))
  /\ RLe(RSub(r, x), Rat(1, 2 * unit))

\* C16 amended: predictions holds at most one row per match_id, and after a
\* successful regeneration that row holds the values of the most recent
\* generation as the columns keep them: every probability rounded to four
\* decimal places and confidence_score to two
C16_LatestValues ==
  /\ C16_OneRowPerMatch
  /\ Saved =>
       \E r \in predictions :
         /\ r.match_id = last.match
         /\ \A c \in (DOMAIN r) \ {"match_id"} :
              C16_RoundedTo(r[c], last.prediction[c],
                            IF c = "confidence_score" THEN 100 ELSE 10000)

\* a regeneration that replaced a different snapshot of the same match
C16_Witness ==
  /\ Saved
  /\ last.replaced
  /\ \E r \in predictions : r.match_id = last.match

\* C12: without the credential of the data source the process halts before
\* any work: no request to the source is issued and nothing is written
C12_MissingKeyHalts ==
  ~env.apiKey =>
    /\ proc \in {"start", "exited"}
    /\ ~requested
    /\ ingest.pc = "idle"
    /\ matches = {}

ActiveLeagues ==
  SortedIds({i \in DOMAIN SUPPORTED_LEAGUES : SUPPORTED_LEAGUES[i].active})

\* C13: whatever fails for a league, a run of updateAllData invokes
\* updateLeagueData for every active league, in the order of
\* SUPPORTED_LEAGUES, and no step of it removes or changes a row written
\* before
C13_LaterLeaguesStillUpdated ==
  [][/\ ingest'.pc = "done" => ingest'.invoked = ActiveLeagues
     /\ (ingest'.pc \notin {"idle", "done"}) =>
          ingest'.invoked = SubSeq(ActiveLeagues, 1, Len(ingest'.invoked))
     /\ matches \subseteq matches']_vars

\* a run that ended with every league invoked although the first two
\* leagues each had a failure, and with a row of the first league kept
C13_Witness ==
  /\ ingest.pc = "done"
  /\ 1 \in ingest.failed
  /\ 2 \in ingest.failed
  /\ Len(ingest.invoked) = NumLeagues
  /\ \E r \in matches : FixtureLeague(origin[r.id]) = 1

ListIds(run) == {run.list[i] : i \in 1..Len(run.list)}

IngestMeasure(run) ==
  LET perLeague == 4 + MaxFixtures
      later == Cardinality({i \in DOMAIN SUPPORTED_LEAGUES : i > run.league})
      here == CASE run.pc = "info" -> 4 + MaxFixtures
                [] run.pc = "teams" -> 3 + MaxFixtures
                [] run.pc = "fixtures" -> 2 + MaxFixtures
                [] run.pc = "upsert" -> 1 + Len(run.queue)
                [] run.pc = "delay" -> 1
                [] OTHER -> 0
  IN  IF run.pc \in {"idle", "done"} THEN 0 ELSE later * perLeague + here

\* steps a run of generatePredictions still has to take, at most
GenMeasure(run) ==
  CASE run.pc = "load" -> 1 + 4 * Cardinality(matches)
    [] run.pc = "home" -> 4 * (Len(run.list) - run.idx) + 4
    [] run.pc = "away" -> 4 * (Len(run.list) - run.idx) + 3
    [] run.pc = "h2h" -> 4 * (Len(run.list) - run.idx) + 2
    [] run.pc = "save" -> 4 * (Len(run.list) - run.idx) + 1
    [] OTHER -> 0

\* C15: whatever requests, reads and writes fail, no run of updateAllData
\* or generatePredictions raises an error to its caller, and every run
\* comes to its end once the calls it awaits return: a run in progress can
\* always take its next step, and each step brings it nearer to its end
C15_JobsResolve ==
  /\ [](/\ ingest.result # "rejected" /\ gen.result # "rejected")
  /\ [](/\ ingest.pc = "done" => ingest.result = "resolved"
        /\ gen.pc = "done" => gen.result = "resolved")
  /\ [](/\ (ingest.pc \notin {"idle", "done"}) => ENABLED IngestStep
        /\ (gen.pc \notin {"idle", "done"}) => ENABLED GenStep)
  /\ [][/\ (ingest.pc \notin {"idle", "done"} /\ ingest' # ingest)
             => IngestMeasure(ingest') < IngestMeasure(ingest)
        /\ (gen.pc \notin {"idle", "done"} /\ gen' # gen)
             => GenMeasure(gen') < GenMeasure(gen)]_vars

\* both jobs have ended resolved although every league had a failure and
\* the query of the upcoming matches failed
C15_Witness ==
  /\ ingest.pc = "done" /\ ingest.result = "resolved"
  /\ Len(ingest.invoked) = NumLeagues
  /\ \A i \in 1..Len(ingest.invoked) : ingest.invoked[i] \in ingest.failed
  /\ gen.pc = "done" /\ gen.result = "resolved" /\ ~gen.loaded

\* the rows that at load time were SCHEDULED with a date within
\* [now, now + 48 hours] (dates count days)
C17_UpcomingAtLoad ==
  {r.id : r \in {x \in matches : /\ x.id < gen.serial
                                 /\ x.status = "SCHEDULED"
                                 /\ x.date >= Now
                                 /\ x.date <= Now + 2}}

C20_GenerationAfterIngestion ==
  ~(/\ gen.pc \notin {"idle", "done"}
    /\ ingest.pc \notin {"idle", "done"}
    /\ gen.trigger = ingest.trigger)

\* C24: home_win_or_draw_probability is max(homeWin, 1 - awayWin) and
\* away_win_or_draw_probability is max(awayWin, 1 - homeWin); the former
\* lies in [0.2, 0.95], the latter in [0.1, 0.9], and neither exceeds 1
C24_WinOrDraw ==
  Computed =>
    LET h == prediction.home_win_probability
        a == prediction.away_win_probability
        hd == prediction.home_win_or_draw_probability
        ad == prediction.away_win_or_draw_probability
    IN  /\ hd = MathMax(h, RSub(One, a))
        /\ ad = MathMax(a, RSub(One, h))
        /\ InRange(hd, Rat(2, 10), Rat(95, 100))
        /\ InRange(ad, Rat(1, 10), Rat(9, 10))
        /\ RLe(hd, One) /\ RLe(ad, One)

\* a prediction without room for a draw: each or-draw field is the win
\* probability itself, which exceeds one minus the other side's
C24_Witness ==
  /\ Computed
  /\ RLt(RSub(One, prediction.away_win_probability),
         prediction.home_win_probability)
  /\ prediction.home_win_or_draw_probability = prediction.home_win_probability
  /\ prediction.away_win_or_draw_probability = prediction.away_win_probability

\* the meetings of the returned rows in which team outscored the other
\* side, whichever side it played on
C28_Outscored(data, team) ==
  {i \in 1..Len(data) :
     \/ data[i].home_team_id = team /\ data[i].home_goals > data[i].away_goals
     \/ data[i].away_team_id = team /\ data[i].away_goals > data[i].home_goals}

\* C28: a result of getHeadToHeadStats computed from the returned matches
\* has homeWins + awayWins + draws = totalMatches <= 10, bothTeamsScored
\* and over2_5Goals at most totalMatches, and homeWins is the number of
\* returned matches in which the first-argument team outscored the other
\* team on whichever side it played
C28_HeadToHeadCounts ==
  (last.op = "getHeadToHeadStats" /\ last.outcome = "ok") =>
    LET h == last.headToHead
    IN  /\ h.homeWins + h.awayWins + h.draws = h.totalMatches
        /\ h.totalMatches <= 10
        /\ h.totalMatches = Len(last.data)
        /\ h.bothTeamsScored <= h.totalMatches
        /\ h.over2_5Goals <= h.totalMatches
        /\ h.homeWins = Cardinality(C28_Outscored(last.data, last.homeTeamId))

\* a result for the team that played away in some of the returned meetings
\* and won there, over a store that holds more meetings than the query
\* returns, some of them with three goals or more
C28_Witness ==
  /\ last.op = "getHeadToHeadStats" /\ last.outcome = "ok"
  /\ Cardinality({r \in matches : r.status = "FINISHED"}) > 10
  /\ last.headToHead.totalMatches = 10
  /\ last.headToHead.over2_5Goals > 0
  /\ \E i \in C28_Outscored(last.data, last.homeTeamId) :
       last.data[i].away_team_id = last.homeTeamId

\* the two invocations agree on recentForm, averageGoalsScored and
\* averageGoalsConceded of each team and on totalMatches, homeWins,
\* awayWins, bothTeamsScored and over2_5Goals
C26_Agree ==
  /\ \A f \in {"recentForm", "averageGoalsScored", "averageGoalsConceded"} :
       /\ homeStats[f] = twin.homeStats[f]
       /\ awayStats[f] = twin.awayStats[f]
  /\ \A f \in {"totalMatches", "homeWins", "awayWins", "bothTeamsScored",
                "over2_5Goals"} :
       headToHead[f] = twin.headToHead[f]

\* C26: two invocations that agree on these fields produce the same
\* probability fields and the same confidence_score, whatever the values of
\* goalsScored, goalsConceded, cleanSheets, failedToScore, homeAdvantage,
\* awayDisadvantage, draws and averageGoals
C26_OutputsDependOnReadFields ==
  (Computed /\ twin.prediction # None /\ C26_Agree) =>
    \A c \in (DOMAIN prediction) \ {"match_id"} :
      prediction[c] = twin.prediction[c]

\* both invocations have computed their prediction from aggregates that
\* differ in every field said not to be read
C26_Witness ==
  /\ Computed /\ twin.prediction # None /\ C26_Agree
  /\ \A f \in {"goalsScored", "goalsConceded", "cleanSheets", "failedToScore",
                "homeAdvantage", "awayDisadvantage"} :
       /\ homeStats[f] # twin.homeStats[f]
       /\ awayStats[f] # twin.awayStats[f]
  /\ headToHead.draws # twin.headToHead.draws
  /\ headToHead.averageGoals # twin.headToHead.averageGoals

\* C23: a step of generatePredictions leaves leagues, venues, teams, matches
\* and match_statistics as they are; of the tables it writes predictions
\* only
C23_WritesPredictionsOnly ==
  [][(gen.pc \notin {"idle", "done"} /\ gen' # gen)
       => /\ matches' = matches
          /\ nextMatchId' = nextMatchId
          /\ leagues' = leagues
          /\ venues' = venues
          /\ teams' = teams
          /\ match_statistics' = match_statistics]_vars

\* a run of generatePredictions has ended with a prediction written for a
\* match of the store
C23_Witness ==
  /\ gen.pc = "done"
  /\ gen.issued # {}
  /\ \E p \in predictions : \E r \in matches : r.id = p.match_id

\* the status the store holds for the fixture that the row id was written
\* for
C25_StatusNow(id) == StoredStatus(matches, origin, origin[id])

\* C25: when generatePredictions issues the upsert of a prediction, and
\* when the store writes it, the store holds the status SCHEDULED for the
\* match of the prediction
C25_UpsertTargetsScheduled ==
  [][/\ (gen.pc = "h2h" /\ gen'.pc = "save")
          => C25_StatusNow(gen.list[gen.idx]) = "SCHEDULED"
     /\ (gen.pc = "save" /\ predictions' # predictions)
          => C25_StatusNow(gen.list[gen.idx]) = "SCHEDULED"]_vars


\* the requests and delays of a pass over the leagues from l on: for each
\* active league its leagues, teams and fixtures request and the delay
RECURSIVE C22_Expected(_)
C22_Expected(l) ==
  IF l > NumLeagues THEN <<>>
  ELSE (IF active[l]
        THEN <<<<"request", l, "leagues">>, <<"request", l, "teams">>,
               <<"request", l, "fixtures">>, <<"delay", l>>>>
        ELSE <<>>) \o C22_Expected(l + 1)

\* the calls of a log that are not upserts, in the order they were made
C22_Calls(log) == SelectSeq(log, LAMBDA e : e[1] # "upsert")

\* C22: in every run of updateAllData the requests and delays made so far
\* are, in this order, a beginning of: for each active league in the order
\* of the list its leagues, teams and fixtures request, then the delay;
\* inactive leagues have no request; a request that is awaited is the last
\* call the run made (nothing else was issued since); a run that has ended
\* has made all of them
C22_LeaguesSequential ==
  \A r \in RunIds :
    LET run == runs[r]
        calls == C22_Calls(run.log)
        expected == C22_Expected(1)
    IN  /\ Len(calls) <= Len(expected)
        /\ calls = SubSeq(expected, 1, Len(calls))
        /\ run.pc = "done" => calls = expected
        /\ run.pc \in {"leagues", "teams", "fixtures"} =>
             run.log[Len(run.log)] = <<"request", run.league, run.pc>>
        /\ run.pc = "delay" => run.log[Len(run.log)] = <<"delay", run.league>>

\* a run has ended where a league is inactive and a later one is active,
\* with upserts made between its requests
C22_Witness ==
  \E r \in RunIds :
    /\ runs[r].pc = "done"
    /\ \E i, j \in 1..NumLeagues : i < j /\ ~active[i] /\ active[j]
    /\ Len(runs[r].log) > Len(C22_Calls(runs[r].log))
    /\ Len(C22_Calls(runs[r].log)) > 0


\* C21: when all the runs of updateAllData, interleaved and fed the same
\* payloads, have ended, each table holds at most one row per source id, as
\* after one run: per league and per team (their names stand for the source
\* ids), per venue id, per fixture, per (match_id, team_id) of statistics
C21_OneRowPerSourceId ==
  (\A r \in RunIds : runs[r].pc = "done") =>
    /\ \A x, y \in leagues : x.name = y.name => x = y
    /\ \A x, y \in teams : x.name = y.name => x = y
    /\ \A x, y \in venues : x.id = y.id => x = y
    /\ \A x, y \in DOMAIN origin : origin[x] = origin[y] => x = y
    /\ \A x, y \in match_statistics :
         (x.match_id = y.match_id /\ x.team_id = y.team_id) => x = y


\* position of the first occurrence of the call event in a log, 0 when the
\* call was not made
C27_Position(log, event) ==
  LET at == {k \in 1..Len(log) : log[k] = event}
  IN  IF at = {} THEN 0 ELSE CHOOSE k \in at : \A j \in at : k <= j

\* C27: in a first pass of updateAllData over the empty store, no other run
\* started, for every team of a teams response that carries a venue the
\* upsert of the venue is made before the upsert of the team, and when the
\* pass has ended the team row with this venue_id and the venue row exist
C27_VenueBeforeTeam ==
  (/\ runs[1].pc = "done"
   /\ \A r \in RunIds \ {1} : runs[r].pc = "idle") =>
    \A l \in 1..NumLeagues :
      (active[l] /\ Responds("teams")) =>
        \A k \in 1..Len(SourceTeams(l)) :
          LET team == SourceTeams(l)[k]
              log == runs[1].log
          IN  team.venue # Null =>
                /\ C27_Position(log, <<"upsert", "venues", team.venue>>) > 0
                /\ C27_Position(log, <<"upsert", "venues", team.venue>>)
                     < C27_Position(log, <<"upsert", "teams", team.team>>)
                /\ \E v \in venues : v.id = team.venue
                /\ \E t \in teams :
                     t.name = team.team /\ t.venue_id = team.venue


\* the venue ids that the payloads ingested by a pass reference: those of
\* the teams and of the fixtures of the active leagues whose request answers
C29_Referenced ==
  UNION {{SourceTeams(l)[k].venue : k \in 1..Len(SourceTeams(l))} :
           l \in {x \in 1..NumLeagues : active[x] /\ Responds("teams")}}
  \cup
  UNION {{PassFixtures(l)[k].venue : k \in 1..Len(PassFixtures(l))} :
           l \in {x \in 1..NumLeagues : active[x] /\ Responds("fixtures")}}

\* C29: a pass of updateAllData that has ended has made the upsert of a
\* venue row for every venue id that a team or a fixture it ingested
\* carries
C29_ReferencedVenueUpserted ==
  \A r \in RunIds :
    runs[r].pc = "done" =>
      \A v \in C29_Referenced \ {Null} :
        \E k \in 1..Len(runs[r].log) :
          runs[r].log[k] = <<"upsert", "venues", v>>

\* C30: a run awaits an upsert into match_statistics only for a fixture
\* whose status maps to FINISHED
C30_StatisticsOnlyWhenFinished ==
  \A r \in RunIds :
    runs[r].pc = "statistics" =>
      mapFixtureStatus(Head(runs[r].queue).short) = "FINISHED"

====
